---- MODULE Spec2Model ----
(***************************************************************************)
(* Model of src/competitor_scanner.js (class CompetitorAnalyzer).          *)
(*                                                                         *)
(* Three specifications share the variables below:                         *)
(*   Spec    run(): the orchestration of the three Targets, the page and   *)
(*           browser life cycle, the selector loop and saveResults();      *)
(*   SpecPC  processContent() applied to bounded input batches;            *)
(*   SpecEx  extractContentFromElements() applied to bounded element lists.*)
(*                                                                         *)
(* Strings that the code inspects character by character (texts, names)    *)
(* are sequences of one-character strings.                                 *)
(***************************************************************************)
EXTENDS Integers, Sequences, FiniteSets, TLC

VARIABLES
  pc,             \* position of the running operation
  browser,        \* this.browser: "none" | "open" | "closed"
  pages,          \* the pages currently open in the browser (by Target index)
  idx,            \* position of run()'s for-loop in Object.keys(this.competitors)
  thrown,         \* the error raised inside scrapeCompetitor's try block, or Null
  queried,        \* the selector lookups made so far for the current Target
  content,        \* scrapeCompetitor's `content` / the extractor's return value
  genericRan,     \* extractGeneralContent was called for the current Target
  ret,            \* the value scrapeCompetitor is about to return, or Null
  results,        \* this.results
  now,            \* the clock read by new Date()
  timestamp,      \* saveResults' `timestamp`, or Null before saveResults ran
  files,          \* the files written under this.outputDir
  runError,       \* the error caught by run() at line 380, or Null
  elements,       \* input of extractContentFromElements (SpecEx)
  rawContent,     \* input of processContent (SpecPC)
  competitorName, \* input of processContent (SpecPC)
  processed       \* output of processContent (SpecPC)

vars == <<pc, browser, pages, idx, thrown, queried, content, genericRan, ret,
          results, now, timestamp, files, runError, elements, rawContent,
          competitorName, processed>>

\* a JavaScript value that may be null or undefined: {} when it is, {v} otherwise
Null == {}
Some(v) == {v}
The(o) == CHOOSE v \in o : TRUE

(***************************************************************************)
(* Bounds of the model.                                                    *)
(***************************************************************************)
MaxBatch == 3       \* longest input batch of processContent in SpecPC
MaxElements == 21   \* longest element list in SpecEx

(***************************************************************************)
(* Characters and strings.                                                 *)
(***************************************************************************)
Min(a, b) == IF a < b THEN a ELSE b

Rep(c, n) == [i \in 1..n |-> c]

UpperCase == <<"A","B","C","D","E","F","G","H","I","J","K","L","M",
               "N","O","P","Q","R","S","T","U","V","W","X","Y","Z">>
LowerCase == <<"a","b","c","d","e","f","g","h","i","j","k","l","m",
               "n","o","p","q","r","s","t","u","v","w","x","y","z">>
Digits == {"0","1","2","3","4","5","6","7","8","9"}

UpperSet == {UpperCase[i] : i \in 1..26}
LowerOf == [c \in UpperSet |-> LowerCase[CHOOSE i \in 1..26 : UpperCase[i] = c]]
WordChars == UpperSet \cup {LowerCase[i] : i \in 1..26} \cup Digits \cup {"_"}

\* String.prototype.toLowerCase, one character
LowerChar(c) == IF c \in UpperSet THEN LowerOf[c] ELSE c

\* String.prototype.toLowerCase
toLowerCase(s) == [i \in 1..Len(s) |-> LowerChar(s[i])]

\* the characters String.prototype.trim removes
WhiteSpace == {" ", "\n", "\t", "\r"}

\* the regular expression class \w
IsWordChar(c) == c \in WordChars

\* String.prototype.trimStart
RECURSIVE trimStart(_)
trimStart(s) ==
  IF s # <<>> /\ Head(s) \in WhiteSpace THEN trimStart(Tail(s)) ELSE s

\* String.prototype.trimEnd
RECURSIVE trimEnd(_)
trimEnd(s) ==
  IF s # <<>> /\ s[Len(s)] \in WhiteSpace
  THEN trimEnd(SubSeq(s, 1, Len(s) - 1)) ELSE s

\* String.prototype.trim
trim(s) == trimEnd(trimStart(s))

\* String.prototype.substring(0, n)
substring(s, n) == SubSeq(s, 1, Min(n, Len(s)))

(***************************************************************************)
(* processContent (lines 177-218).                                         *)
(* An UpdateItem carries the fields the ordering, the filter and the id    *)
(* are computed from; title, content preview, extractedDate and            *)
(* extractedAt are derived from fullContent alone and feed nothing back.   *)
(***************************************************************************)

\* the alternatives of the keyword regular expression at line 197
Keywords == {
  <<"n","e","w">>,
  <<"u","p","d","a","t","e">>,
  <<"r","e","l","e","a","s","e">>,
  <<"f","e","a","t","u","r","e">>,
  <<"i","m","p","r","o","v","e","m","e","n","t">>,
  <<"l","a","u","n","c","h">>,
  <<"a","n","n","o","u","n","c","e">>,
  <<"v","e","r","s","i","o","n">>,
  <<"f","i","x">>,
  <<"e","n","h","a","n","c","e","m","e","n","t">> }

\* /\b(new|update|...)\b/i.test(text): a keyword, ignoring case, with no
\* word character right before it or right after it
isUpdate(text) ==
  \E i \in 1..Len(text) :
    /\ (i = 1 \/ ~IsWordChar(text[i - 1]))
    /\ \E k \in Keywords :
         /\ i + Len(k) - 1 <= Len(text)
         /\ \A m \in 1..Len(k) : LowerChar(text[i + m - 1]) = k[m]
         /\ (i + Len(k) - 1 = Len(text) \/ ~IsWordChar(text[i + Len(k)]))

DecimalDigits == <<"0","1","2","3","4","5","6","7","8","9">>

\* the decimal numeral a template literal prints for a non-negative integer
RECURSIVE ToDecimal(_)
ToDecimal(n) ==
  IF n < 10 THEN <<DecimalDigits[n + 1]>>
  ELSE ToDecimal(n \div 10) \o <<DecimalDigits[(n % 10) + 1]>>

\* the template literal `${competitorName.toLowerCase()}_${index}` (line 200)
ItemId(name, index) == toLowerCase(name) \o <<"_">> \o ToDecimal(index)

\* the object pushed at lines 199-209; index is forEach's 0-based index
UpdateItem(text, name, index) ==
  [ id             |-> ItemId(name, index),
    competitor     |-> name,
    fullContent    |-> text,
    isLikelyUpdate |-> isUpdate(text),
    contentLength  |-> Len(text) ]

\* line 185 comparing the whole text with the fingerprints seen
SkipRecord_WholeText(text, seenTexts) ==
  Len(text) < 30 \/ text \in seenTexts

\* line 185 with the boundary moved to <= 30
SkipRecord_Exclusive(text, seenTexts) ==
  Len(text) <= 30 \/ substring(text, 100) \in seenTexts

\* the condition of the early return at line 185
SkipRecord(text, seenTexts) ==
  Len(text) < 30 \/ substring(text, 100) \in seenTexts

\* the forEach callback numbering the items by their position in `processed`
RECURSIVE forEachRecord_PostFilterIndex(_, _, _, _, _)
forEachRecord_PostFilterIndex(raw, name, index, acc, seenTexts) ==
  IF index >= Len(raw) THEN acc
  ELSE LET text == trim(raw[index + 1].text)
       IN IF SkipRecord(text, seenTexts)
          THEN forEachRecord_PostFilterIndex(raw, name, index + 1, acc, seenTexts)
          ELSE forEachRecord_PostFilterIndex(raw, name, index + 1,
                 Append(acc, UpdateItem(text, name, Len(acc))),
                 seenTexts \cup {substring(text, 100)})

\* the forEach callback of lines 181-210, from record number index+1 on
RECURSIVE forEachRecord(_, _, _, _, _)
forEachRecord(raw, name, index, acc, seenTexts) ==
  IF index >= Len(raw) THEN acc
  ELSE LET text == trim(raw[index + 1].text)
       IN IF SkipRecord(text, seenTexts)
          THEN forEachRecord(raw, name, index + 1, acc, seenTexts)
          ELSE forEachRecord(raw, name, index + 1,
                             Append(acc, UpdateItem(text, name, index)),
                             seenTexts \cup {substring(text, 100)})

\* the comparator with the length difference reversed
compare_Ascending(a, b) ==
  IF a.isLikelyUpdate /\ ~b.isLikelyUpdate THEN -1
  ELSE IF ~a.isLikelyUpdate /\ b.isLikelyUpdate THEN 1
  ELSE a.contentLength - b.contentLength

\* the comparator of lines 212-217
compare(a, b) ==
  IF a.isLikelyUpdate /\ ~b.isLikelyUpdate THEN -1
  ELSE IF ~a.isLikelyUpdate /\ b.isLikelyUpdate THEN 1
  ELSE b.contentLength - a.contentLength

\* one insertion of a stable sort: x goes after every element that does not
\* compare greater than it
InsertSorted(s, x) ==
  LET before == {i \in 0..Len(s) : \A j \in 1..i : compare(s[j], x) <= 0}
      k == CHOOSE i \in before : \A j \in before : j <= i
  IN SubSeq(s, 1, k) \o <<x>> \o SubSeq(s, k + 1, Len(s))

\* Array.prototype.sort with the comparator above (stable since ES2019)
RECURSIVE sort(_, _)
sort(s, acc) ==
  IF s = <<>> THEN acc ELSE sort(Tail(s), InsertSorted(acc, Head(s)))

processContent(raw, name) == sort(forEachRecord(raw, name, 0, <<>>, {}), <<>>)

(***************************************************************************)
(* extractContentFromElements (lines 129-152) and extractGeneralContent    *)
(* (lines 154-175).  An element of the page is a record                    *)
(*   [innerText: Some(string) or Null, tagName, throws]                    *)
(* where throws says that page.evaluate on it rejects.                     *)
(***************************************************************************)

\* el.innerText?.trim() || ''
ElementText(el) == IF el.innerText = Null THEN <<>> ELSE trim(The(el.innerText))

\* line 143 without the length test
KeepItem_AnyText(text) == Len(text) > 0

\* the condition of the push at line 143
KeepItem(text) == Len(text) > 0 /\ Len(text) > 20

\* the for loop of lines 132-149, from element number i+1 on
RECURSIVE extractLoop(_, _, _)
extractLoop(els, i, acc) ==
  IF i >= Min(Len(els), 20) THEN acc
  ELSE LET el == els[i + 1]
       IN IF el.throws
          THEN extractLoop(els, i + 1, acc)
          ELSE IF KeepItem(ElementText(el))
               THEN extractLoop(els, i + 1,
                      Append(acc, [text |-> ElementText(el), tagName |-> el.tagName]))
               ELSE extractLoop(els, i + 1, acc)

extractContentFromElements(els) == extractLoop(els, 0, <<>>)

\* the forEach callback of lines 161-171 over the containers of the page
RECURSIVE generalLoop(_, _, _)
generalLoop(containers, i, acc) ==
  IF i >= Len(containers) THEN acc
  ELSE LET c == containers[i + 1]
           text == ElementText(c)
       IN IF Len(text) > 0 /\ Len(text) > 50
          THEN generalLoop(containers, i + 1,
                 Append(acc, [text |-> substring(text, 2000), tagName |-> c.tagName]))
          ELSE generalLoop(containers, i + 1, acc)

extractGeneralContent(containers) == generalLoop(containers, 0, <<>>)

(***************************************************************************)
(* The configuration of the constructor (lines 8-27).                      *)
(***************************************************************************)
competitorKeys == <<"braze", "iterable", "klaviyo">>

competitors ==
  [ braze |->
      [ name |-> <<"B","r","a","z","e">>,
        url |-> "https://www.braze.com/docs/help/release_notes",
        selector |-> ".release-note, .changelog-entry, [data-testid=\"release-note\"], .content-section",
        fallbackSelectors |-> <<"article", ".markdown-body", ".content", "main">> ],
    iterable |->
      [ name |-> <<"I","t","e","r","a","b","l","e">>,
        url |-> "https://support.iterable.com/hc/en-us/articles/33302033277332-2025-Release-Notes",
        selector |-> ".article-body, .article-content, .zendesk-article",
        fallbackSelectors |-> <<".article-body", "article", ".content", "main">> ],
    klaviyo |->
      [ name |-> <<"K","l","a","v","i","y","o">>,
        url |-> "https://www.klaviyo.com/whats-new",
        selector |-> ".whats-new-item, .update-card, .release-item",
        fallbackSelectors |-> <<".card", ".update", "article", ".content", "main">> ] ]

\* the property names of this.competitors (lines 9, 15, 21), spelled out
keyChars ==
  [ braze    |-> <<"b","r","a","z","e">>,
    iterable |-> <<"i","t","e","r","a","b","l","e">>,
    klaviyo  |-> <<"k","l","a","v","i","y","o">> ]

\* Object.keys(this.competitors).length
NumTargets == Len(competitorKeys)

\* const selectors at line 80 with the fallbacks put first
selectorsOf_FallbacksFirst(c) == c.fallbackSelectors \o <<c.selector>>

\* const selectors = [competitor.selector, ...competitor.fallbackSelectors]
selectorsOf(c) == <<c.selector>> \o c.fallbackSelectors

(***************************************************************************)
(* Inputs of the pure-function specifications.                             *)
(***************************************************************************)
Word(w, c, n) == w \o <<" ">> \o Rep(c, n - Len(w) - 1)

TextPool == {
  Rep("a", 30),                                   \* exactly the minimum
  <<" ">> \o Rep("a", 30) \o <<"\n">>,            \* the same after trim
  Rep("a", 29) \o <<" ">>,                        \* 30 raw, 29 trimmed
  Word(<<"n","e","w">>, "b", 40),                 \* keyword, 40
  Word(<<"F","i","x">>, "c", 40),                 \* keyword in capitals, 40
  Word(<<"n","e","w","s">>, "d", 40),             \* no whole-word keyword, 40
  Rep("e", 100) \o <<"x">>,                       \* equal first 100 characters
  Rep("e", 100) \o <<"y", "z">>,
  Rep("e", 99) \o <<"b", "x">> }                  \* differs at character 100

RawRecord(t) == [text |-> t, tagName |-> "DIV"]

RECURSIVE SeqsUpTo(_, _)
SeqsUpTo(S, n) ==
  IF n = 0 THEN {<<>>}
  ELSE LET shorter == SeqsUpTo(S, n - 1)
       IN shorter \cup {Append(s, x) : s \in {t \in shorter : Len(t) = n - 1}, x \in S}

Batches == SeqsUpTo({RawRecord(t) : t \in TextPool}, MaxBatch)

Names == {competitors[k].name : k \in DOMAIN competitors}

Padded(n) == <<" ", "\t">> \o Rep("p", n) \o <<"\n">>

ElementPool == {
  [innerText |-> Some(Rep("s", 19)),  tagName |-> "P",       throws |-> FALSE],
  [innerText |-> Some(Rep("t", 20)),  tagName |-> "LI",      throws |-> FALSE],
  [innerText |-> Some(Rep("u", 21)),  tagName |-> "ARTICLE", throws |-> FALSE],
  [innerText |-> Some(Padded(20)),    tagName |-> "SECTION", throws |-> FALSE],
  [innerText |-> Some(Padded(21)),    tagName |-> "DIV",     throws |-> FALSE],
  [innerText |-> Null,          tagName |-> "svg",     throws |-> FALSE],
  [innerText |-> Some(Rep("v", 25)),  tagName |-> "SPAN",    throws |-> TRUE] }

\* n elements equal to b, except that number p is e
ElementList(n, b, p, e) == [i \in 1..n |-> IF i = p THEN e ELSE b]

ElementLists ==
  {ElementList(n, b, p, e) : n \in 0..MaxElements, b \in ElementPool,
                             p \in 1..MaxElements, e \in ElementPool}

(***************************************************************************)
(* SpecPC: processContent on every batch of Batches.                       *)
(* SpecEx: extractContentFromElements on every list of ElementLists.       *)
(***************************************************************************)
RunIdle ==
  /\ browser = "none" /\ pages = {} /\ idx = 1 /\ thrown = Null
  /\ queried = <<>> /\ genericRan = FALSE /\ ret = Null /\ results = <<>>
  /\ now = 0 /\ timestamp = Null /\ files = {} /\ runError = Null

InitPC ==
  /\ pc = "processContent"
  /\ rawContent \in Batches
  /\ competitorName \in Names
  /\ processed = Null
  /\ elements = <<>> /\ content = Null
  /\ RunIdle

CallProcessContent ==
  /\ pc = "processContent"
  /\ processed' = Some(processContent(rawContent, competitorName))
  /\ pc' = "returned"
  /\ UNCHANGED <<browser, pages, idx, thrown, queried, content, genericRan, ret,
                 results, now, timestamp, files, runError, elements, rawContent,
                 competitorName>>

NextPC == CallProcessContent

SpecPC == InitPC /\ [][NextPC]_vars

InitEx ==
  /\ pc = "extractContentFromElements"
  /\ elements \in ElementLists
  /\ content = Null
  /\ rawContent = <<>> /\ competitorName = <<>> /\ processed = Null
  /\ RunIdle

CallExtractContentFromElements ==
  /\ pc = "extractContentFromElements"
  /\ content' = Some(extractContentFromElements(elements))
  /\ pc' = "returned"
  /\ UNCHANGED <<browser, pages, idx, thrown, queried, genericRan, ret,
                 results, now, timestamp, files, runError, elements, rawContent,
                 competitorName, processed>>

NextEx == CallExtractContentFromElements

SpecEx == InitEx /\ [][NextEx]_vars

(***************************************************************************)
(* Spec: run() (lines 351-385) with scrapeCompetitor (lines 58-127) and    *)
(* saveResults (lines 229-276) inlined at their call sites.  Every await   *)
(* on the browser, the page or the file system either resolves or rejects; *)
(* what the page holds is chosen when it is looked up.                     *)
(*                                                                         *)
(* browser.close() ends the browser process and with it every page; the    *)
(* clock advances during the pause between Targets and during file writes. *)
(***************************************************************************)

\* what a looked-up selector may match on a page
RunElementLists == {
  <<>>,
  << [innerText |-> Some(Rep("s", 19)), tagName |-> "P", throws |-> FALSE] >>,
  << [innerText |-> Some(Rep("m", 25)), tagName |-> "LI", throws |-> FALSE] >>,
  << [innerText |-> Some(Word(<<"N","e","w">>, "b", 40)),
      tagName |-> "ARTICLE", throws |-> FALSE] >> }

\* the containers extractGeneralContent may find on a page
RunContainerLists == {
  <<>>,
  << [innerText |-> Some(Word(<<"r","e","l","e","a","s","e">>, "g", 60)),
      tagName |-> "MAIN", throws |-> FALSE] >> }

\* messages of the errors page.goto rejects with
FetchErrors == {"Navigation timeout of 30000 ms exceeded", "net::ERR_CONNECTION_REFUSED"}

\* the competitor run()'s loop is at
competitor == competitors[competitorKeys[idx]]

\* the object returned at lines 106-112; the success object has no error
SuccessResult(c, items, t) ==
  [ competitor |-> c.name, url |-> c.url, scrapedAt |-> t,
    error |-> Null, itemCount |-> Len(items), items |-> items ]

\* the catch block returning with the error field missing
ErrorResult_NoMessage(c, message, t) ==
  [ competitor |-> c.name, url |-> c.url, scrapedAt |-> t,
    error |-> Null, itemCount |-> 0, items |-> <<>> ]

\* the object returned by the catch block at lines 116-123
ErrorResult(c, message, t) ==
  [ competitor |-> c.name, url |-> c.url, scrapedAt |-> t,
    error |-> Some(message), itemCount |-> 0, items |-> <<>> ]

\* a rejection inside the try block of scrapeCompetitor: the catch block
\* (lines 114-123) builds the return value, then the finally block runs
Throw(message) ==
  /\ thrown' = Some(message)
  /\ ret' = Some(ErrorResult(competitor, message, now))
  /\ pc' = "closePage"

\* a rejection inside the try block of run(): the catch block at line 380
ThrowRun(message) ==
  /\ runError' = Some(message)
  /\ pc' = "catch"

\* initialize (lines 33-41): a failing mkdir is logged and swallowed
Initialize ==
  /\ pc = "initialize"
  /\ \E mkdirFails \in BOOLEAN : pc' = "launchBrowser"
  /\ UNCHANGED <<browser, pages, idx, thrown, queried, content, genericRan,
                 ret, results, now, timestamp, files, runError, elements,
                 rawContent, competitorName, processed>>

\* launchBrowser (lines 43-49), called outside run()'s try block
LaunchBrowser ==
  /\ pc = "launchBrowser"
  /\ \/ browser' = "open" /\ pc' = "newPage"
     \/ browser' = browser /\ pc' = "rejected"
  /\ UNCHANGED <<pages, idx, thrown, queried, content, genericRan, ret,
                 results, now, timestamp, files, runError, elements,
                 rawContent, competitorName, processed>>

\* line 63, before scrapeCompetitor's try block
NewPage ==
  /\ pc = "newPage"
  /\ thrown' = Null /\ queried' = <<>> /\ content' = Null
  /\ genericRan' = FALSE /\ ret' = Null
  /\ \/ pages' = pages \cup {idx} /\ pc' = "setUserAgent" /\ runError' = runError
     \/ pages' = pages /\ ThrowRun("newPage failed")
  /\ UNCHANGED <<browser, idx, results, now, timestamp, files, elements,
                 rawContent, competitorName, processed>>

\* line 67
SetUserAgent ==
  /\ pc = "setUserAgent"
  /\ \/ pc' = "goto" /\ UNCHANGED <<thrown, ret>>
     \/ Throw("setUserAgent failed")
  /\ UNCHANGED <<browser, pages, idx, queried, content, genericRan, results,
                 now, timestamp, files, runError, elements, rawContent,
                 competitorName, processed>>

\* lines 70-73
Goto ==
  /\ pc = "goto"
  /\ \/ pc' = "waitForTimeout" /\ UNCHANGED <<thrown, ret>>
     \/ \E message \in FetchErrors : Throw(message)
  /\ UNCHANGED <<browser, pages, idx, queried, content, genericRan, results,
                 now, timestamp, files, runError, elements, rawContent,
                 competitorName, processed>>

\* line 76
WaitForTimeout ==
  /\ pc = "waitForTimeout"
  /\ \/ pc' = "querySelector" /\ UNCHANGED <<thrown, ret>>
     \/ Throw("waitForTimeout failed")
  /\ UNCHANGED <<browser, pages, idx, queried, content, genericRan, results,
                 now, timestamp, files, runError, elements, rawContent,
                 competitorName, processed>>

\* one iteration of the loop of lines 82-93: the lookup throws (caught at
\* line 90), finds nothing, or finds elements, which are extracted (line 87)
\* before the break
QuerySelector ==
  /\ pc = "querySelector"
  /\ Len(queried) < Len(selectorsOf(competitor))
  /\ LET selector == selectorsOf(competitor)[Len(queried) + 1]
     IN \/ /\ queried' = Append(queried,
                [selector |-> selector, threw |-> TRUE, elements |-> <<>>])
           /\ UNCHANGED <<content, pc>>
        \/ \E els \in RunElementLists :
             /\ queried' = Append(queried,
                  [selector |-> selector, threw |-> FALSE, elements |-> els])
             /\ IF Len(els) > 0
                THEN /\ content' = Some(extractContentFromElements(els))
                     /\ pc' = "afterSelectors"
                ELSE UNCHANGED <<content, pc>>
  /\ UNCHANGED <<browser, pages, idx, thrown, genericRan, ret, results, now,
                 timestamp, files, runError, elements, rawContent,
                 competitorName, processed>>

\* the loop of lines 82-93 ends without a break
SelectorsExhausted ==
  /\ pc = "querySelector"
  /\ Len(queried) = Len(selectorsOf(competitor))
  /\ pc' = "afterSelectors"
  /\ UNCHANGED <<browser, pages, idx, thrown, queried, content, genericRan,
                 ret, results, now, timestamp, files, runError, elements,
                 rawContent, competitorName, processed>>

\* line 96 testing for null only
NeedsGeneralContent_NullOnly(c) == c = Null

\* the condition at line 96
NeedsGeneralContent(c) == c = Null \/ Len(The(c)) = 0

\* lines 96-99
GeneralFallback ==
  /\ pc = "afterSelectors"
  /\ IF NeedsGeneralContent(content)
     THEN /\ genericRan' = TRUE
          /\ \/ \E containers \in RunContainerLists :
                  /\ content' = Some(extractGeneralContent(containers))
                  /\ pc' = "processContent"
                  /\ UNCHANGED <<thrown, ret>>
             \/ Throw("evaluate failed") /\ content' = content
     ELSE /\ pc' = "processContent"
          /\ UNCHANGED <<content, genericRan, thrown, ret>>
  /\ UNCHANGED <<browser, pages, idx, queried, results, now, timestamp, files,
                 runError, elements, rawContent, competitorName, processed>>

\* lines 102-112
ProcessAndReturn ==
  /\ pc = "processContent"
  /\ ret' = Some(SuccessResult(competitor,
                   processContent(The(content), competitor.name), now))
  /\ pc' = "closePage"
  /\ UNCHANGED <<browser, pages, idx, thrown, queried, content, genericRan,
                 results, now, timestamp, files, runError, elements,
                 rawContent, competitorName, processed>>

\* the finally block without a close
ClosePage_Leak ==
  /\ pc = "closePage"
  /\ \/ pc' = "push" /\ runError' = runError
     \/ ThrowRun("page.close failed")
  /\ UNCHANGED <<browser, pages, idx, thrown, queried, content, genericRan,
                 ret, results, now, timestamp, files, elements, rawContent,
                 competitorName, processed>>

\* the finally block at lines 124-126; when page.close() rejects the pending
\* return value is lost and the page may or may not be gone
ClosePage ==
  /\ pc = "closePage"
  /\ \/ pages' = pages \ {idx} /\ pc' = "push" /\ runError' = runError
     \/ pages' \in {pages, pages \ {idx}} /\ ThrowRun("page.close failed")
  /\ UNCHANGED <<browser, idx, thrown, queried, content, genericRan, ret,
                 results, now, timestamp, files, elements, rawContent,
                 competitorName, processed>>

\* line 361
PushResult ==
  /\ pc = "push"
  /\ results' = Append(results, The(ret))
  /\ pc' = "delay"
  /\ UNCHANGED <<browser, pages, idx, thrown, queried, content, genericRan,
                 ret, now, timestamp, files, runError, elements, rawContent,
                 competitorName, processed>>

\* line 364 and the next step of the for loop at line 359
Delay ==
  /\ pc = "delay"
  /\ now' = now + 1
  /\ IF idx < NumTargets
     THEN idx' = idx + 1 /\ pc' = "newPage"
     ELSE idx' = idx /\ pc' = "saveResults"
  /\ UNCHANGED <<browser, pages, thrown, queried, content, genericRan, ret,
                 results, timestamp, files, runError, elements, rawContent,
                 competitorName, processed>>

\* path.join(this.outputDir, `${prefix}-${timestamp}.${extension}`)
ReportFile(kind, token) == [kind |-> kind, token |-> token]

\* the number of rows pushed to csvData at lines 238-253
RECURSIVE csvRows(_)
csvRows(rs) == IF rs = <<>> THEN 0 ELSE Head(rs).itemCount + csvRows(Tail(rs))

\* lines 230-235
SaveResults ==
  /\ pc = "saveResults"
  /\ timestamp' = Some(now)
  /\ now' = now + 1
  /\ \/ /\ files' = files \cup {ReportFile("json", now)}
        /\ pc' = "writeCSV"
        /\ runError' = runError
     \/ files' = files /\ ThrowRun("writeFile failed")
  /\ UNCHANGED <<browser, pages, idx, thrown, queried, content, genericRan,
                 ret, results, elements, rawContent, competitorName, processed>>

\* lines 255-272
WriteCSV ==
  /\ pc = "writeCSV"
  /\ IF csvRows(results) > 0
     THEN /\ now' = now + 1
          /\ \/ /\ files' = files \cup {ReportFile("csv", The(timestamp))}
                /\ pc' = "generateHTMLReport"
                /\ runError' = runError
             \/ files' = files /\ ThrowRun("writeRecords failed")
     ELSE /\ pc' = "generateHTMLReport"
          /\ UNCHANGED <<now, files, runError>>
  /\ UNCHANGED <<browser, pages, idx, thrown, queried, content, genericRan,
                 ret, results, timestamp, elements, rawContent,
                 competitorName, processed>>

\* line 275 and generateHTMLReport (lines 278-349)
GenerateHTMLReport ==
  /\ pc = "generateHTMLReport"
  /\ now' = now + 1
  /\ \/ /\ files' = files \cup {ReportFile("html", The(timestamp))}
        /\ pc' = "summary"
        /\ runError' = runError
     \/ files' = files /\ ThrowRun("writeFile failed")
  /\ UNCHANGED <<browser, pages, idx, thrown, queried, content, genericRan,
                 ret, results, timestamp, elements, rawContent,
                 competitorName, processed>>

\* lines 370-378
PrintSummary ==
  /\ pc = "summary"
  /\ pc' = "closeBrowser"
  /\ UNCHANGED <<browser, pages, idx, thrown, queried, content, genericRan,
                 ret, results, now, timestamp, files, runError, elements,
                 rawContent, competitorName, processed>>

\* lines 380-382
CatchRun ==
  /\ pc = "catch"
  /\ pc' = "closeBrowser"
  /\ UNCHANGED <<browser, pages, idx, thrown, queried, content, genericRan,
                 ret, results, now, timestamp, files, runError, elements,
                 rawContent, competitorName, processed>>

\* the finally block at line 383 and closeBrowser (lines 51-56)
CloseBrowser ==
  /\ pc = "closeBrowser"
  /\ IF browser = "open"
     THEN browser' = "closed" /\ pages' = {}
     ELSE UNCHANGED <<browser, pages>>
  /\ pc' = "done"
  /\ UNCHANGED <<idx, thrown, queried, content, genericRan, ret, results, now,
                 timestamp, files, runError, elements, rawContent,
                 competitorName, processed>>

Init ==
  /\ pc = "initialize"
  /\ RunIdle
  /\ content = Null
  /\ elements = <<>> /\ rawContent = <<>> /\ competitorName = <<>>
  /\ processed = Null

Next ==
  \/ Initialize
  \/ LaunchBrowser
  \/ NewPage
  \/ SetUserAgent
  \/ Goto
  \/ WaitForTimeout
  \/ QuerySelector
  \/ SelectorsExhausted
  \/ GeneralFallback
  \/ ProcessAndReturn
  \/ ClosePage
  \/ PushResult
  \/ Delay
  \/ SaveResults
  \/ WriteCSV
  \/ GenerateHTMLReport
  \/ PrintSummary
  \/ CatchRun
  \/ CloseBrowser

Spec == Init /\ [][Next]_vars

(***************************************************************************)
(* Properties of processContent (SpecPC).                                  *)
(***************************************************************************)
Fingerprint(t) == substring(t, 100)

\* the trimmed text of input record number i (1-based)
TrimmedInput(i) == trim(rawContent[i].text)

\* the number an id ends with, after its last underscore
IndexOfId(id) ==
  CHOOSE n \in 0..Len(rawContent) :
    \E p \in 1..Len(id) :
      /\ id[p] = "_"
      /\ \A q \in (p + 1)..Len(id) : id[q] # "_"
      /\ SubSeq(id, p + 1, Len(id)) = ToDecimal(n)

\* input record number i was emitted (ids carry the 0-based input index)
Emitted(i) == \E k \in 1..Len(The(processed)) : IndexOfId(The(processed)[k].id) = i - 1

\* C8: no two emitted items have the same first 100 characters, and among
\* the input records sharing a fingerprint exactly the earliest one with at
\* least 30 characters is emitted
C8_NoDuplicateFingerprint ==
  pc = "returned" /\ processed # Null =>
    LET out == The(processed)
    IN /\ \A i, j \in 1..Len(out) :
            i # j => Fingerprint(out[i].fullContent) # Fingerprint(out[j].fullContent)
       /\ \A i \in 1..Len(rawContent) :
            Emitted(i) <=>
              /\ Len(TrimmedInput(i)) >= 30
              /\ ~\E j \in 1..(i - 1) :
                    /\ Len(TrimmedInput(j)) >= 30
                    /\ Fingerprint(TrimmedInput(j)) = Fingerprint(TrimmedInput(i))

C8_Witness ==
  /\ pc = "returned" /\ processed # Null
  /\ \E i, j \in 1..Len(rawContent) :
       /\ i < j
       /\ TrimmedInput(i) # TrimmedInput(j)
       /\ Len(TrimmedInput(i)) > 100
       /\ Fingerprint(TrimmedInput(i)) = Fingerprint(TrimmedInput(j))
       /\ Emitted(i) /\ ~Emitted(j)

\* C9: every emitted item has contentLength >= 30 (the length of its trimmed
\* text); a non-duplicate record of exactly 30 characters is emitted, a
\* record of fewer than 30 (so of exactly 29) is not
C9_MinimumLength ==
  pc = "returned" /\ processed # Null =>
    LET out == The(processed)
    IN /\ \A k \in 1..Len(out) :
            /\ out[k].contentLength >= 30
            /\ out[k].contentLength = Len(out[k].fullContent)
            /\ out[k].fullContent = TrimmedInput(IndexOfId(out[k].id) + 1)
       /\ \A i \in 1..Len(rawContent) :
            /\ Len(TrimmedInput(i)) <= 29 => ~Emitted(i)
            /\ (/\ Len(TrimmedInput(i)) = 30
                /\ \A j \in 1..(i - 1) : TrimmedInput(j) # TrimmedInput(i))
               => Emitted(i)

C9_Witness ==
  /\ pc = "returned" /\ processed # Null
  /\ \E i, j \in 1..Len(rawContent) :
       /\ Len(TrimmedInput(i)) = 29 /\ ~Emitted(i)
       /\ Len(TrimmedInput(j)) = 30 /\ Emitted(j)

\* C10: in the returned sequence a likely update never follows an item that
\* is not one, items with the same flag are in non-increasing contentLength,
\* and items with the same flag and length keep their input order
C10_SortOrder ==
  pc = "returned" /\ processed # Null =>
    LET out == The(processed)
    IN /\ \A k \in 1..(Len(out) - 1) :
            LET a == out[k]
                b == out[k + 1]
            IN /\ ~(b.isLikelyUpdate /\ ~a.isLikelyUpdate)
               /\ (a.isLikelyUpdate = b.isLikelyUpdate
                     => a.contentLength >= b.contentLength)
       /\ \A i, j \in 1..Len(out) :
            (/\ i < j
             /\ out[i].isLikelyUpdate = out[j].isLikelyUpdate
             /\ out[i].contentLength = out[j].contentLength)
            => IndexOfId(out[i].id) < IndexOfId(out[j].id)

C10_Witness ==
  /\ pc = "returned" /\ processed # Null
  /\ LET out == The(processed)
     IN /\ Len(out) = 3
        /\ out[1].isLikelyUpdate /\ ~out[2].isLikelyUpdate
        /\ out[1].contentLength < out[2].contentLength
        /\ out[2].contentLength = out[3].contentLength
        /\ IndexOfId(out[1].id) > IndexOfId(out[2].id)

\* the key under which competitorName is configured
KeyOfName == CHOOSE k \in DOMAIN competitors : competitors[k].name = competitorName

\* input record number i (1-based) passes the filter of processContent
PassesFilter(i) ==
  /\ Len(TrimmedInput(i)) >= 30
  /\ ~\E j \in 1..(i - 1) :
        /\ Len(TrimmedInput(j)) >= 30
        /\ Fingerprint(TrimmedInput(j)) = Fingerprint(TrimmedInput(i))

\* C11: the ids of one returned batch are pairwise distinct, and the id of
\* each item is the lowercased competitor key, an underscore and the 0-based
\* position its record had in the input, rejected records included
C11_IdsFromInputPosition ==
  pc = "returned" /\ processed # Null =>
    LET out == The(processed)
        prefix == toLowerCase(keyChars[KeyOfName]) \o <<"_">>
    IN /\ \A i, j \in 1..Len(out) : i # j => out[i].id # out[j].id
       /\ \A k \in 1..Len(out) :
            \E n \in 0..(Len(rawContent) - 1) :
              /\ out[k].id = prefix \o ToDecimal(n)
              /\ PassesFilter(n + 1)
              /\ out[k].fullContent = TrimmedInput(n + 1)
       /\ \A n \in 0..(Len(rawContent) - 1) :
            PassesFilter(n + 1) =>
              \E k \in 1..Len(out) : out[k].id = prefix \o ToDecimal(n)

\* a too-short record in front of two emitted ones: the ids are _1 and _2,
\* and _0 is never given
C11_Witness ==
  /\ pc = "returned" /\ processed # Null
  /\ Len(rawContent) = 3
  /\ ~PassesFilter(1) /\ PassesFilter(2) /\ PassesFilter(3)
  /\ Len(TrimmedInput(1)) < 30
  /\ {The(processed)[k].id : k \in 1..Len(The(processed))} =
       {toLowerCase(keyChars[KeyOfName]) \o <<"_", "1">>,
        toLowerCase(keyChars[KeyOfName]) \o <<"_", "2">>}

(***************************************************************************)
(* Properties of extractContentFromElements (SpecEx).                      *)
(***************************************************************************)

\* the records of the elements, among the first 20, whose text can be read
\* and has at least minLen characters after trimming, in element order
RecordsOfAtLeast(els, minLen) ==
  LET looked == SubSeq(els, 1, Min(20, Len(els)))
      Long(el) == ~el.throws /\ Len(ElementText(el)) >= minLen
      kept == SelectSeq(looked, Long)
  IN [i \in 1..Len(kept) |->
        [text |-> ElementText(kept[i]), tagName |-> kept[i].tagName]]

\* C6 as claimed: a record for exactly the elements, among the first 20,
\* whose trimmed text has at least 20 characters
C6_KeepsTwentyCharacters ==
  pc = "returned" /\ content # Null =>
    The(content) = RecordsOfAtLeast(elements, 20)

\* C6 as amended: targeted extraction looks at no more than the first 20
\* elements and emits a record, in element order, for exactly those whose
\* evaluation did not fail and whose trimmed text has more than 20
\* characters; an element of exactly 20 characters is skipped
C6_KeepsMoreThanTwenty ==
  pc = "returned" /\ content # Null =>
    /\ The(content) = RecordsOfAtLeast(elements, 21)
    /\ Len(The(content)) <= 20
    /\ \A k \in 1..Len(The(content)) : Len(The(content)[k].text) > 20

C6_Witness ==
  /\ pc = "returned" /\ content # Null
  /\ Len(elements) = 21
  /\ \A i \in 1..21 : ~elements[i].throws
  /\ \E i \in 1..20 : Len(ElementText(elements[i])) = 20
  /\ \A i \in 1..21 : Len(ElementText(elements[i])) \in {20, 21}
  /\ Len(The(content)) = 19

(***************************************************************************)
(* Properties of run() (Spec).                                             *)
(***************************************************************************)
FetchFailed == thrown # Null /\ The(thrown) \in FetchErrors

C2_OneResultPerTarget ==
  pc = "done" /\ browser = "closed" =>
    /\ Len(results) = NumTargets
    /\ \A i \in 1..Len(results) :
         results[i].competitor = competitors[competitorKeys[i]].name
    /\ timestamp # Null

Matched(q) == ~q.threw /\ Len(q.elements) > 0

\* C4 as claimed: generic extraction runs exactly when no selector matched;
\* when one matched, the Normalizer gets the records of targeted extraction
C4_GenericOnlyWithoutMatch ==
  pc = "processContent" =>
    /\ genericRan <=> ~\E j \in 1..Len(queried) : Matched(queried[j])
    /\ \A j \in 1..Len(queried) :
         Matched(queried[j]) =>
           content = Some(extractContentFromElements(queried[j].elements))

\* C4 as amended: generic extraction runs exactly when no selector matched
\* or targeted extraction of the matching selector's elements produced no
\* record; when it produced at least one record, those records are handed to
\* the Normalizer and generic extraction is not run
C4_GenericWithoutRecords ==
  pc = "processContent" =>
    /\ content # Null
    /\ genericRan <=>
         \A j \in 1..Len(queried) :
           Matched(queried[j]) =>
             extractContentFromElements(queried[j].elements) = <<>>
    /\ \A j \in 1..Len(queried) :
         Matched(queried[j])
         /\ extractContentFromElements(queried[j].elements) # <<>>
         => /\ ~genericRan
            /\ content = Some(extractContentFromElements(queried[j].elements))

C4_Witness ==
  /\ pc = "processContent"
  /\ genericRan
  /\ queried # <<>>
  /\ Matched(queried[Len(queried)])
  /\ content # Null /\ The(content) # <<>>

\* C5: selectors are looked up in the order primary, fallbacks; a lookup
\* that throws or finds nothing is followed by the next one; the first
\* lookup that finds an element gives the elements of targeted extraction
\* and is the last lookup made
C5_FirstMatchWins ==
  pc \in {"querySelector", "afterSelectors", "processContent", "closePage", "push"} =>
    LET c == competitors[competitorKeys[idx]]
        configured == <<c.selector>> \o c.fallbackSelectors
    IN /\ Len(queried) <= Len(configured)
       /\ \A j \in 1..Len(queried) : queried[j].selector = configured[j]
       /\ \A j \in 1..(Len(queried) - 1) : ~Matched(queried[j])
       /\ pc = "querySelector" =>
            /\ content = Null
            /\ \A j \in 1..Len(queried) : ~Matched(queried[j])
       /\ pc = "afterSelectors" =>
            IF queried # <<>> /\ Matched(queried[Len(queried)])
            THEN content =
                   Some(extractContentFromElements(queried[Len(queried)].elements))
            ELSE content = Null /\ Len(queried) = Len(configured)

C5_Witness ==
  /\ pc = "afterSelectors"
  /\ Len(queried) = 3
  /\ queried[1].threw
  /\ ~queried[2].threw /\ queried[2].elements = <<>>
  /\ Matched(queried[3])
  /\ content # Null

\* C7: when saveResults has completed, the JSON, the CSV and the HTML file
\* of the run's timestamp token have all been written
C7_ThreeArtifacts ==
  pc = "summary" =>
    /\ timestamp # Null
    /\ \A kind \in {"json", "csv", "html"} :
         ReportFile(kind, The(timestamp)) \in files

====
